---- MODULE Spec2Model ----
(***************************************************************************)
(* Reconciliation of Evia Sign webhook events into agreement rows          *)
(* (services/signatureWebhookService.js), and the ingress that receives,   *)
(* stores and hands over the events (server.js and                         *)
(* services/supabaseClient.js).                                            *)
(*                                                                         *)
(* JavaScript strings are modelled as sequences of tokens whose            *)
(* concatenation is the string: <<"Jane", " ", "Doe">> is "Jane Doe".      *)
(* A token is either one white-space character (" ") or a run of           *)
(* non-white-space characters.  The JavaScript value `undefined` is the    *)
(* one-token sequence Undefined; the empty string is << >>.                *)
(* Timestamps are readings of the integer variable `now`; NoTime stands    *)
(* for a column that is null / a payload field that is missing.            *)
(***************************************************************************)
EXTENDS Integers, Sequences, FiniteSets, TLC

\* ------------------------------------------------------------------ bounds
NumProcs == 2      \* invocations of processSignatureEvent that may overlap
MaxEvents == 2     \* webhook deliveries received in one behaviour
MaxClock == 1      \* readings the wall clock can take after the first
MaxRequests == 1   \* requests the ingress handler answers in one behaviour

\* --------------------------------------------------------- program constants
SIGN_REQUEST_RECEIVED == 1
SIGNATORY_COMPLETED == 2
REQUEST_COMPLETED == 3
REQUEST_REJECTED == 5

SEND_FOR_SIGNATURE == <<"send_for_signature">>
SIGNING_COMPLETE == <<"signing_complete">>
SIG_REJECTED == <<"rejected">>

CREATED == "created"
PENDING_ACTIVATION == "pending_activation"
ACTIVE == "active"
REJECTED == "rejected"

\* ------------------------------------------------------------ JS values
Undefined == <<"<undefined>">>
NoTime == 0
Null == <<"<null>">>

Truthy(s) == s # Undefined /\ s # << >>

\* a || b
OrElse(a, b) == IF Truthy(a) THEN a ELSE b

IsSpace(t) == t = " "

\* name.replace(/\s+/g, '_'): every maximal run of white space becomes ONE "_"
RECURSIVE ReplaceWhitespaceRuns(_)
ReplaceWhitespaceRuns(s) ==
  IF s = << >> THEN << >>
  ELSE IF IsSpace(Head(s))
       THEN IF Len(s) > 1 /\ IsSpace(s[2])
            THEN ReplaceWhitespaceRuns(Tail(s))
            ELSE <<"_">> \o ReplaceWhitespaceRuns(Tail(s))
       ELSE <<Head(s)>> \o ReplaceWhitespaceRuns(Tail(s))

\* email.split('@')[0]: everything before the first "@"
RECURSIVE SplitAtFirst(_)
SplitAtFirst(s) ==
  IF s = << >> \/ Head(s) = "@" THEN << >>
  ELSE <<Head(s)>> \o SplitAtFirst(Tail(s))

\* toLowerCase on the tokens the payloads use
ToLowerCase(s) ==
  [i \in 1..Len(s) |-> CASE s[i] = "Landlord" -> "landlord"
                         [] s[i] = "Jane" -> "jane"
                         [] s[i] = "Doe" -> "doe"
                         [] OTHER -> s[i]]

\* the lower-case form of a reference written one character a token; only
\* the hexadecimal letters have one
LowerChars(s) ==
  [i \in 1..Len(s) |-> CASE s[i] = "A" -> "a" [] s[i] = "B" -> "b"
                          [] s[i] = "C" -> "c" [] s[i] = "D" -> "d"
                          [] s[i] = "E" -> "e" [] s[i] = "F" -> "f"
                          [] OTHER -> s[i]]

\* s.includes(word), for a word that is one token of the payload alphabet
Includes(s, word) == \E i \in 1..Len(s) : s[i] = word

LandlordWords == {"landlord", "owner", "admin"}
TenantWords == {"tenant", "renter", "rentee"}

determineSignatoryType(email, name) ==
  IF ~Truthy(email) /\ ~Truthy(name) THEN Null
  ELSE LET emailLower == ToLowerCase(OrElse(email, << >>))
           nameLower == ToLowerCase(OrElse(name, << >>))
       IN IF \E w \in LandlordWords : Includes(emailLower, w) \/ Includes(nameLower, w)
          THEN <<"landlord">>
          ELSE IF \E w \in TenantWords : Includes(emailLower, w) \/ Includes(nameLower, w)
          THEN <<"tenant">>
          ELSE <<"tenant">>

\* ------------------------------------------------------------- the store
\* External references (UUID text).  RefA is the reference of agreement A1.
RefA == <<"ref-a">>
RefUnknown == <<"ref-unknown">>

AgreementIds == {"A1"}

JaneEmail == <<"jane", "@", "x.com">>
BobEmail == <<"bob", "@", "x.com">>
JaneDoe == <<"Jane", " ", " ", "Doe">>

\* A roster entry as the external process records it before signing starts
\* (scripts/test-state-flow.js): pending, with a reference, no signedAt.
PendingJane ==
  [email |-> JaneEmail, name |-> <<"Jane">>, type |-> <<"tenant">>,
   status |-> "pending", reference |-> "tenant-ref-456"]

InitialRosters == {<< >>, <<PendingJane>>}

InitialAgreement(id, roster) ==
  [id |-> id,
   eviasignreference |-> RefA,
   signature_request_id |-> Null,
   status |-> CREATED,
   signature_status |-> <<"pending_signature">>,
   signatories_status |-> roster,
   updatedat |-> 1,
   signature_sent_at |-> NoTime,
   signature_completed_at |-> NoTime,
   signeddate |-> NoTime,
   signed_document_url |-> Null,
   pdfurl |-> Null,
   signatureurl |-> Null]

\* ------------------------------------------------------------- payloads
NoDocuments == << >>
OneDocument == <<[DocumentName |-> <<"agreement.pdf">>, DocumentContent |-> <<"JVBERi">>]>>

Payload(req, code, name, email, time, docs) ==
  [RequestId |-> req, EventId |-> code, UserName |-> name, Email |-> email,
   EventTime |-> time, Documents |-> docs]

MaxCode == 5

\* a code between the recognized ones that the switch has no case for
UnrecognizedCode == 4

\* Deliveries of every numeric code 0..MaxCode for agreement A1, a delivery
\* with an unknown and one with a missing reference, the signer-completed
\* deliveries with and without display name, email and event time, and a
\* request-completed delivery carrying a document.
PlainPayloads ==
  {Payload(RefA, c, Undefined, Undefined, 1, NoDocuments) : c \in 0..MaxCode}
  \cup {Payload(r, SIGN_REQUEST_RECEIVED, Undefined, Undefined, 1, NoDocuments) :
          r \in {RefUnknown, Undefined}}

SignerPayloads ==
  {Payload(RefA, SIGNATORY_COMPLETED, JaneDoe, JaneEmail, t, NoDocuments) : t \in {NoTime, 1}}
  \cup {Payload(RefA, SIGNATORY_COMPLETED, Undefined, BobEmail, t, NoDocuments) : t \in {NoTime, 1}}
  \cup {Payload(RefA, SIGNATORY_COMPLETED, n, Undefined, 1, NoDocuments) : n \in {Undefined, JaneDoe}}

DocumentPayloads ==
  {Payload(RefA, REQUEST_COMPLETED, Undefined, Undefined, 1, OneDocument)}

Payloads == PlainPayloads \cup SignerPayloads \cup DocumentPayloads

\* The deliveries that overlapping invocations are run on: a recognized
\* code without roster effect, an unrecognized one, and signers that share
\* or do not share an email with each other and with the initial roster.
ConcurrentPayloads ==
  {Payload(RefA, c, Undefined, Undefined, 1, NoDocuments) :
     c \in {REQUEST_COMPLETED, UnrecognizedCode}}
  \cup {Payload(RefA, SIGNATORY_COMPLETED, JaneDoe, JaneEmail, 1, NoDocuments),
        Payload(RefA, SIGNATORY_COMPLETED, Undefined, BobEmail, NoTime, NoDocuments),
        Payload(RefA, SIGNATORY_COMPLETED, JaneDoe, Undefined, 1, NoDocuments)}

NoPayload == Payload(Undefined, 0, Undefined, Undefined, NoTime, NoDocuments)

Procs == 1..NumProcs

VARIABLES
  agreements,   \* the agreements table: id -> row
  now,          \* the wall clock (new Date())
  pc,           \* per invocation: "idle", "find", "update", "done", or
                \* "raised" when an exception left the function
  webhookData,  \* per invocation: the payload being processed
  agreement,    \* per invocation: id of the agreement found ("none" before)
  updateData,   \* per invocation: the update computed from the row read
  result,       \* per invocation: the value returned
  received,     \* number of deliveries received so far
  initial,      \* history: the agreements table as the behaviour found it
  applied,      \* history: the payloads written back, in write order
  webhook_events,  \* the webhook_events table: rows in insertion order
  handler,      \* handleEviaSignWebhook: the request being handled
  job,          \* the 'new-webhook' listener: the event being processed
  processingEnabled  \* ENABLE_WEBHOOK_ADDITIONAL_PROCESSING === 'true'

svars == <<agreements, now, pc, webhookData, agreement, updateData, result,
           received, initial, applied>>

ivars == <<webhook_events, handler, job, processingEnabled>>

vars == <<svars, ivars>>

NoUpdate == [updatedat |-> NoTime]
NoResult == [success |-> FALSE]

\* null, as the value of an id
NoEventId == <<"null", 0>>

NoResponse == [status |-> 0]

IdleHandler ==
  [pc |-> "idle", count |-> 0, webhookData |-> NoPayload, reference |-> Null,
   retryCount |-> 0, attempts |-> 0, fallbacks |-> 0,
   storedEventId |-> NoEventId,
   insertOutcome |-> "none", insertResult |-> NoResult,
   broadcast |-> "none", response |-> NoResponse]

IdleJob ==
  [state |-> "idle", storedEventId |-> NoEventId, markCalled |-> FALSE,
   markRaised |-> FALSE, markResult |-> NoResult, marks |-> 0]

Init ==
  /\ \E r \in InitialRosters :
       agreements = [id \in AgreementIds |-> InitialAgreement(id, r)]
  /\ now = 1
  /\ pc = [p \in Procs |-> "idle"]
  /\ webhookData = [p \in Procs |-> NoPayload]
  /\ agreement = [p \in Procs |-> "none"]
  /\ updateData = [p \in Procs |-> NoUpdate]
  /\ result = [p \in Procs |-> NoResult]
  /\ received = 0
  /\ initial = agreements
  /\ applied = << >>
  /\ webhook_events = << >>
  /\ handler = IdleHandler
  /\ job = IdleJob
  /\ processingEnabled = FALSE

\* ------------------------------------------------- findAgreementByEviaReference
\* The strategies, in the order the code tries them.  `failing` is the set of
\* strategies whose query returns an error (or, for the RPC, a non-ok
\* response); a failing strategy is logged and skipped.
\* An order that asks for signature_request_id first.
Strategies_SecondaryFirst == <<"alt", "cast", "direct", "rpc">>

Strategies == <<"cast", "direct", "alt", "rpc">>

Matches(strategy, row, requestId) ==
  CASE strategy = "cast" -> row.eviasignreference = requestId
    [] strategy = "direct" -> row.eviasignreference = requestId
    [] strategy = "alt" -> row.signature_request_id = requestId
    [] strategy = "rpc" -> row.eviasignreference = requestId

\* rows of the table a strategy returns (ids), given the table
QueryRows(strategy, rows, requestId) ==
  {id \in DOMAIN rows : Matches(strategy, rows[id], requestId)}

RECURSIVE FindFrom(_, _, _, _)
FindFrom(i, rows, requestId, failing) ==
  IF i > Len(Strategies) THEN "none"
  ELSE LET hit == QueryRows(Strategies[i], rows, requestId)
       IN IF Strategies[i] \notin failing /\ hit # {}
          THEN CHOOSE id \in hit : TRUE
          ELSE FindFrom(i + 1, rows, requestId, failing)

\* The older version's lookup: eviasignreference, signature_request_id, then
\* .ilike('eviasignreference', requestId) as a last resort.
findAgreementByEviaReference_Older(rows, requestId, failing) ==
  IF ~Truthy(requestId) THEN "none"
  ELSE LET exact == {id \in DOMAIN rows : rows[id].eviasignreference = requestId}
           alt == {id \in DOMAIN rows : rows[id].signature_request_id = requestId}
           caseInsensitive ==
             {id \in DOMAIN rows :
                LowerChars(rows[id].eviasignreference) = LowerChars(requestId)}
       IN IF "direct" \notin failing /\ exact # {} THEN CHOOSE id \in exact : TRUE
          ELSE IF "alt" \notin failing /\ alt # {} THEN CHOOSE id \in alt : TRUE
          ELSE IF "rpc" \notin failing /\ caseInsensitive # {}
          THEN CHOOSE id \in caseInsensitive : TRUE
          ELSE "none"

findAgreementByEviaReference(rows, requestId, failing) ==
  IF ~Truthy(requestId) THEN "none" ELSE FindFrom(1, rows, requestId, failing)

\* --------------------------------------------------------- the switch
FieldOf(s, f) == IF f \in DOMAIN s THEN s[f] ELSE Undefined

\* signatoryData.findIndex(s => s.email === email); 0 stands for -1
RECURSIVE FindIndexFrom(_, _, _)
FindIndexFrom(i, signatoryData, email) ==
  IF i > Len(signatoryData) THEN 0
  ELSE IF FieldOf(signatoryData[i], "email") = email THEN i
  ELSE FindIndexFrom(i + 1, signatoryData, email)

\* A search that stops one entry short of the end.
findIndex_SkipsLast(signatoryData, email) ==
  IF signatoryData = << >> THEN 0
  ELSE FindIndexFrom(1, SubSeq(signatoryData, 1, Len(signatoryData) - 1), email)

findIndex(signatoryData, email) == FindIndexFrom(1, signatoryData, email)

\* { ...old, ...new }
Spread(old, new) ==
  [f \in DOMAIN old \cup DOMAIN new |-> IF f \in DOMAIN new THEN new[f] ELSE old[f]]

\* An update that replaces the recorded entry by the new one.
MergeSignatory_Replaces(existing, newSignatory) == newSignatory

\* signatoryData[existingIndex] = { ...signatoryData[existingIndex], ...newSignatory }
MergeSignatory(existing, newSignatory) == Spread(existing, newSignatory)

\* A merge that never looks the email up.
UpsertSignatory_AlwaysPush(signatoryData, newSignatory) ==
  Append(signatoryData, newSignatory)

UpsertSignatory(signatoryData, newSignatory) ==
  LET existingIndex == findIndex(signatoryData, newSignatory.email)
  IN IF existingIndex > 0
     THEN [signatoryData EXCEPT ![existingIndex] = MergeSignatory(@, newSignatory)]
     ELSE Append(signatoryData, newSignatory)

signatoryName(wd) == OrElse(wd.UserName, SplitAtFirst(wd.Email))

\* The name used as it comes.
SignedBy_Raw(name) == <<"signed_by_">> \o name

SignedBy(name) == <<"signed_by_">> \o ReplaceWhitespaceRuns(name)

\* A signer branch that reads the email only when there is one
\* (webhookData.Email?.split('@')): nothing is raised.
SignerThrows_GuardedEmail(wd) == FALSE

\* webhookData.Email.split('@') raises a TypeError when Email is undefined
\* and the display name did not short-circuit the ||.
SignerThrows(wd) == ~Truthy(wd.UserName) /\ wd.Email = Undefined

LocalUrl(id) == <<"file://signed_", id>>
PublicUrl(id) == <<"https://files/agreements/", id>>

\* What the document branch of REQUEST_COMPLETED can come to: the local save
\* fails; it succeeds and the upload fails; the upload succeeds without a
\* public URL; or the upload succeeds with one.
DocOutcomes == {"save_failed", "upload_failed", "no_public_url", "uploaded"}

DocumentFields(id, docOutcome) ==
  CASE docOutcome = "save_failed" -> << >>
    [] docOutcome \in {"upload_failed", "no_public_url"} ->
         [signed_document_url |-> LocalUrl(id)]
    [] docOutcome = "uploaded" ->
         [signed_document_url |-> PublicUrl(id), pdfurl |-> PublicUrl(id),
          signatureurl |-> PublicUrl(id)]

\* case SIGN_REQUEST_RECEIVED
SignRequestReceivedUpdate(t) ==
  [status |-> PENDING_ACTIVATION,
   signature_status |-> SEND_FOR_SIGNATURE,
   signature_sent_at |-> t]

\* An entry stamped with the processing time whatever the event says.
newSignatory_IgnoresEventTime(wd, t) ==
  [name |-> OrElse(wd.UserName, <<"Unknown">>),
   email |-> wd.Email,
   type |-> determineSignatoryType(wd.Email, wd.UserName),
   status |-> "completed",
   signedAt |-> t]

newSignatory(wd, t) ==
  [name |-> OrElse(wd.UserName, <<"Unknown">>),
   email |-> wd.Email,
   type |-> determineSignatoryType(wd.Email, wd.UserName),
   status |-> "completed",
   signedAt |-> IF wd.EventTime # NoTime THEN wd.EventTime ELSE t]

\* A case that starts the roster anew instead of reading the agreement's.
SignatoryCompletedUpdate_FreshRoster(row, wd, t) ==
  [signature_status |-> SignedBy(signatoryName(wd)),
   status |-> PENDING_ACTIVATION,
   signatories_status |-> <<newSignatory(wd, t)>>]

\* case SIGNATORY_COMPLETED
SignatoryCompletedUpdate(row, wd, t) ==
  [signature_status |-> SignedBy(signatoryName(wd)),
   status |-> PENDING_ACTIVATION,
   signatories_status |-> UpsertSignatory(row.signatories_status, newSignatory(wd, t))]

\* The label the README's mapping table gives to a completed request.
RequestCompletedUpdate_Signed(row, wd, t, docOutcome) ==
  [status |-> ACTIVE,
   signature_status |-> <<"signed">>,
   signature_completed_at |-> t,
   signeddate |-> t]

\* case REQUEST_COMPLETED
RequestCompletedUpdate(row, wd, t, docOutcome) ==
  Spread([status |-> ACTIVE,
          signature_status |-> SIGNING_COMPLETE,
          signature_completed_at |-> t,
          signeddate |-> t],
         IF Len(wd.Documents) > 0
         THEN DocumentFields(row.id, docOutcome)
         ELSE << >>)

\* case REQUEST_REJECTED
RequestRejectedUpdate ==
  [status |-> REJECTED, signature_status |-> SIG_REJECTED]

\* A switch whose document branch has no catch of its own: a failed save or
\* upload reaches the outer catch.
BuildUpdate_DocumentFailureThrows(row, wd, t, docOutcome) ==
  LET base == [updatedat |-> t]
      eventId == wd.EventId
  IN CASE eventId = SIGN_REQUEST_RECEIVED ->
            [kind |-> "update", data |-> Spread(base, SignRequestReceivedUpdate(t))]
       [] eventId = SIGNATORY_COMPLETED ->
            IF SignerThrows(wd) THEN [kind |-> "throw", data |-> base]
            ELSE [kind |-> "update",
                  data |-> Spread(base, SignatoryCompletedUpdate(row, wd, t))]
       [] eventId = REQUEST_COMPLETED ->
            IF docOutcome \in {"save_failed", "upload_failed"}
            THEN [kind |-> "throw", data |-> base]
            ELSE [kind |-> "update",
                  data |-> Spread(base, RequestCompletedUpdate(row, wd, t, docOutcome))]
       [] eventId = REQUEST_REJECTED ->
            [kind |-> "update", data |-> Spread(base, RequestRejectedUpdate)]
       [] OTHER -> [kind |-> "noop", data |-> base]

\* The update the switch builds for the row read, at clock reading t.
\* kind: "update" (falls through to the write-back), "noop" (the default
\* branch returns), "throw" (an exception reaches the outer catch).
BuildUpdate(row, wd, t, docOutcome) ==
  LET base == [updatedat |-> t]
      eventId == wd.EventId
  IN CASE eventId = SIGN_REQUEST_RECEIVED ->
            [kind |-> "update", data |-> Spread(base, SignRequestReceivedUpdate(t))]
       [] eventId = SIGNATORY_COMPLETED ->
            IF SignerThrows(wd) THEN [kind |-> "throw", data |-> base]
            ELSE [kind |-> "update",
                  data |-> Spread(base, SignatoryCompletedUpdate(row, wd, t))]
       [] eventId = REQUEST_COMPLETED ->
            [kind |-> "update",
             data |-> Spread(base, RequestCompletedUpdate(row, wd, t, docOutcome))]
       [] eventId = REQUEST_REJECTED ->
            [kind |-> "update", data |-> Spread(base, RequestRejectedUpdate)]
       [] OTHER -> [kind |-> "noop", data |-> base]

\* An update without its filter: every row of the table is selected.
Selected_NoFilter(rows, id) == DOMAIN rows

\* .eq('id', id): the rows an update is applied to
Selected(rows, id) == {r \in DOMAIN rows : r = id}

\* An update that writes the lifecycle status and nothing else.
ApplyUpdate_StatusOnly(rows, id, data) ==
  [rows EXCEPT ![id] = Spread(@, [status |-> data.status])]

\* supabase.from('agreements').update(updateData).eq('id', id)
ApplyUpdate(rows, id, data) ==
  [r \in DOMAIN rows |->
     IF r \in Selected(rows, id) THEN Spread(rows[r], data) ELSE rows[r]]

\* ------------------------------------------------------ processSignatureEvent
InvalidData(wd) == ~Truthy(wd.RequestId) \/ wd.EventId = 0

InvalidResult == [success |-> FALSE, error |-> "Invalid webhook data"]

\* The older version's answer to a lookup that found nothing: a failure.
PartialResult_HardFailure(err) == [success |-> FALSE, error |-> err]

PartialResult(err) ==
  [success |-> TRUE, recordingSuccess |-> TRUE, agreementProcessed |-> FALSE,
   error |-> err]

NoopResult ==
  [success |-> TRUE, recordingSuccess |-> TRUE, agreementProcessed |-> FALSE,
   message |-> "Webhook received but event type not recognized for processing"]

ProcessedResult(id, data) ==
  [success |-> TRUE, recordingSuccess |-> TRUE, agreementProcessed |-> TRUE,
   agreementId |-> id, updates |-> data]

\* An outer catch that lets the exception go on to the caller.
OuterCatch_Rethrows(message) == [raised |-> TRUE, value |-> NoResult]

\* catch (error) of the function body: the exception ends there and a
\* partial success carrying its message is returned.
OuterCatch(message) == [raised |-> FALSE, value |-> PartialResult(message)]

\* an invocation slot is free before its first use and after it has returned
Free(p) == pc[p] \in {"idle", "done"}

\* A delivery arrives and is given the lowest free invocation slot, whose
\* previous result has been handed to the caller: validation, then the
\* lookup is awaited.
Accept(p, wd) ==
  /\ Free(p)
  /\ \A q \in Procs : q < p => ~Free(q)
  /\ received' = received + 1
  /\ webhookData' = [webhookData EXCEPT ![p] = wd]
  /\ agreement' = [agreement EXCEPT ![p] = "none"]
  /\ updateData' = [updateData EXCEPT ![p] = NoUpdate]
  /\ IF InvalidData(wd)
     THEN /\ pc' = [pc EXCEPT ![p] = "done"]
          /\ result' = [result EXCEPT ![p] = InvalidResult]
     ELSE /\ pc' = [pc EXCEPT ![p] = "find"]
          /\ result' = [result EXCEPT ![p] = NoResult]
  /\ UNCHANGED <<agreements, now, initial, applied>>

\* The lookup answers; the switch runs on the row it returned, up to the
\* point where the write-back is awaited.
Find(p, failing, docOutcome) ==
  /\ pc[p] = "find"
  /\ LET id == findAgreementByEviaReference(agreements, webhookData[p].RequestId, failing)
     IN IF id = "none"
        THEN /\ pc' = [pc EXCEPT ![p] = "done"]
             /\ result' = [result EXCEPT ![p] = PartialResult("No matching agreement found")]
             /\ UNCHANGED <<agreement, updateData>>
        ELSE LET b == BuildUpdate(agreements[id], webhookData[p], now, docOutcome)
             IN /\ agreement' = [agreement EXCEPT ![p] = id]
                /\ CASE b.kind = "update" ->
                          /\ pc' = [pc EXCEPT ![p] = "update"]
                          /\ updateData' = [updateData EXCEPT ![p] = b.data]
                          /\ UNCHANGED result
                     [] b.kind = "noop" ->
                          /\ pc' = [pc EXCEPT ![p] = "done"]
                          /\ result' = [result EXCEPT ![p] = NoopResult]
                          /\ UNCHANGED updateData
                     [] b.kind = "throw" ->
                          LET c == OuterCatch("TypeError")
                          IN /\ pc' = [pc EXCEPT ![p] =
                                         IF c.raised THEN "raised" ELSE "done"]
                             /\ result' = [result EXCEPT ![p] = c.value]
                             /\ UNCHANGED updateData
  /\ UNCHANGED <<agreements, now, webhookData, received, initial, applied>>

\* ... of which at most MaxEvents are delivered
Receive(p, wd) == received < MaxEvents /\ Accept(p, wd)

\* The older version's write-back: a refused update is returned as a failure.
Update_HardFailure(p, ok) ==
  /\ pc[p] = "update"
  /\ pc' = [pc EXCEPT ![p] = "done"]
  /\ IF ok
     THEN /\ agreements' = ApplyUpdate(agreements, agreement[p], updateData[p])
          /\ result' = [result EXCEPT ![p] = ProcessedResult(agreement[p], updateData[p])]
          /\ applied' = Append(applied, webhookData[p])
     ELSE /\ result' = [result EXCEPT ![p] = [success |-> FALSE, error |-> "update failed"]]
          /\ UNCHANGED <<agreements, applied>>
  /\ UNCHANGED <<now, webhookData, agreement, updateData, received, initial>>

\* The write-back answers: applied, or refused with an error, or the call
\* raised.
Update(p, ok) ==
  /\ pc[p] = "update"
  /\ pc' = [pc EXCEPT ![p] = "done"]
  /\ IF ok
     THEN /\ agreements' = ApplyUpdate(agreements, agreement[p], updateData[p])
          /\ result' = [result EXCEPT ![p] = ProcessedResult(agreement[p], updateData[p])]
          /\ applied' = Append(applied, webhookData[p])
     ELSE /\ result' = [result EXCEPT ![p] = PartialResult("update failed")]
          /\ UNCHANGED <<agreements, applied>>
  /\ UNCHANGED <<now, webhookData, agreement, updateData, received, initial>>

\* Time passes.
Tick ==
  /\ now <= MaxClock
  /\ now' = now + 1
  /\ UNCHANGED <<agreements, pc, webhookData, agreement, updateData, result,
                 received, initial, applied>>

\* The store failures a lookup is run under: none; the first, the first two,
\* the first three strategies failing; every strategy failing.
LookupFailures ==
  {{}, {"cast"}, {"cast", "direct"}, {"cast", "direct", "alt"},
   {"cast", "direct", "alt", "rpc"}}

DocOutcomesFor(wd) ==
  IF wd.EventId = REQUEST_COMPLETED /\ Len(wd.Documents) > 0
  THEN DocOutcomes ELSE {"no_document"}

Step(p, payloads) ==
  \/ \E wd \in payloads : Receive(p, wd)
  \/ \E failing \in LookupFailures, d \in DocOutcomesFor(webhookData[p]) :
       Find(p, failing, d)
  \/ \E ok \in BOOLEAN : Update(p, ok)

Next ==
  \/ \E p \in Procs : Step(p, ConcurrentPayloads) /\ UNCHANGED ivars
  \/ Tick /\ UNCHANGED ivars

Spec == Init /\ [][Next]_vars

\* One invocation at a time: each delivery is processed to its result before
\* the next one is received.
NextSeq ==
  \/ Step(1, Payloads) /\ UNCHANGED ivars
  \/ Tick /\ UNCHANGED ivars

SpecSeq == Init /\ [][NextSeq]_vars

\* ================================================================ ingress
\* server.js: handleEviaSignWebhook, the 'new-webhook' listener, and the
\* event store adapter of services/supabaseClient.js.  References are
\* sequences of one-character tokens here, so that the regular expressions
\* of the handler can be computed.

\* the reference of agreement A1 in the handler's runs: a version-4 UUID
CanonicalRef == <<
  "a", "0", "e", "e", "b", "c", "9", "9", "-", "9", "c", "0",
  "b", "-", "4", "e", "f", "8", "-", "b", "b", "6", "d", "-",
  "6", "b", "b", "9", "b", "d", "3", "8", "0", "a", "1", "1">>

\* the same 32 hexadecimal characters with "_" where the dashes belong
UnderscoredRef == <<
  "a", "0", "e", "e", "b", "c", "9", "9", "_", "9", "c", "0",
  "b", "_", "4", "e", "f", "8", "_", "b", "b", "6", "d", "_",
  "6", "b", "b", "9", "b", "d", "3", "8", "0", "a", "1", "1">>

\* a reference that is no UUID and has not 32 hexadecimal characters
ShortRef == <<"r", "e", "f", "-", "1", "2", "3">>

HexDigits ==
  {"0", "1", "2", "3", "4", "5", "6", "7", "8", "9",
   "a", "b", "c", "d", "e", "f", "A", "B", "C", "D", "E", "F"}

\* /^[0-9a-f]{8}-[0-9a-f]{4}-[1-5][0-9a-f]{3}-[89ab][0-9a-f]{3}-[0-9a-f]{12}$/i
isUUID(str) ==
  /\ Truthy(str)
  /\ Len(str) = 36
  /\ \A i \in 1..36 :
       CASE i \in {9, 14, 19, 24} -> str[i] = "-"
         [] i = 15 -> str[i] \in {"1", "2", "3", "4", "5"}
         [] i = 20 -> str[i] \in {"8", "9", "a", "b", "A", "B"}
         [] OTHER -> str[i] \in HexDigits

\* str.replace(/[^a-f0-9]/gi, '')
RECURSIVE StripNonHex(_)
StripNonHex(str) ==
  IF str = << >> THEN << >>
  ELSE IF Head(str) \in HexDigits
       THEN <<Head(str)>> \o StripNonHex(Tail(str))
       ELSE StripNonHex(Tail(str))

\* the value the handler stores in the record's eviasignreference
eviasignReference(requestId) ==
  IF ~Truthy(requestId) THEN Null
  ELSE IF isUUID(requestId) THEN requestId
  ELSE LET normalizedUUID == StripNonHex(requestId)
       IN IF Len(normalizedUUID) = 32
          THEN SubSeq(normalizedUUID, 1, 8) \o <<"-">> \o
               SubSeq(normalizedUUID, 9, 12) \o <<"-">> \o
               SubSeq(normalizedUUID, 13, 16) \o <<"-">> \o
               SubSeq(normalizedUUID, 17, 20) \o <<"-">> \o
               SubSeq(normalizedUUID, 21, 32)
          ELSE requestId

\* the deliveries the handler is run on: a request-completed event with a
\* document and a canonical reference, a request-received event whose
\* reference has stray characters, a signer-completed event with a reference
\* that is no UUID, an event without reference, and one without EventId
IngressPayloads ==
  {Payload(CanonicalRef, REQUEST_COMPLETED, Undefined, Undefined, 1, OneDocument),
   Payload(UnderscoredRef, SIGN_REQUEST_RECEIVED, Undefined, Undefined, 1, NoDocuments),
   Payload(ShortRef, SIGNATORY_COMPLETED, JaneDoe, JaneEmail, 1, NoDocuments),
   Payload(Undefined, SIGN_REQUEST_RECEIVED, Undefined, Undefined, 1, NoDocuments),
   Payload(CanonicalRef, 0, Undefined, Undefined, 1, NoDocuments)}

\* the id the store gives to the next row of webhook_events
NewEventId == <<"evt", Len(webhook_events) + 1>>

\* the row of webhook_events a record becomes
EventRow(id, reference, wd) ==
  [id |-> id, eviasignreference |-> reference, event_id |-> wd.EventId,
   raw_data |-> wd, createdat |-> now, updatedat |-> now,
   processed |-> FALSE, document_url |-> Null]

\* What the writes of insertWebhookEvent can come to: the direct POST is
\* answered ok; it is refused and the client insert succeeds; it is refused
\* and the client insert fails; a call raises.
InsertOutcomes == {"http_ok", "client_ok", "client_error", "exception"}

\* crypto.randomUUID()
GeneratedUUID == <<"<random-uuid>">>

\* request_id of the record insertWebhookEvent builds
validRequestId(requestId) ==
  IF isUUID(requestId) THEN LowerChars(requestId) ELSE GeneratedUUID

\* An adapter whose failed writes end in the failure the older version
\* returned.
insertWebhookEvent_HardFailure(eventData, outcome, id, t) ==
  CASE outcome \in {"http_ok", "client_ok"} ->
         [success |-> TRUE, data |-> [id |-> id]]
    [] OTHER -> [success |-> FALSE, error |-> "insert failed"]

\* services/supabaseClient.js insertWebhookEvent: the value returned, given
\* the outcome of the writes, the id the store assigns and the clock
insertWebhookEvent(eventData, outcome, id, t) ==
  CASE outcome \in {"http_ok", "client_ok"} ->
         [success |-> TRUE, data |-> [id |-> id]]
    [] outcome = "client_error" ->
         [success |-> TRUE,
          data |-> [id |-> <<"local-", t>>,
                    request_id |-> validRequestId(eventData.RequestId),
                    virtual |-> TRUE],
          warning |-> "Created virtual record due to database issues"]
    [] outcome = "exception" ->
         [success |-> TRUE,
          data |-> [id |-> <<"error-", t>>,
                    request_id |-> validRequestId(eventData.RequestId),
                    virtual |-> TRUE],
          warning |-> "Created virtual record due to insert error"]

\* What marking can come to: the PATCH is answered ok; it is refused and the
\* client update succeeds; both are refused; a call raises.
MarkOutcomes == {"http_ok", "client_ok", "all_failed", "exception"}

\* A marking that lets the failure of its writes go on to the caller.
markWebhookEventProcessed_Throws(eventId, outcome) ==
  IF eventId = NoEventId
  THEN [raised |-> FALSE, marked |-> FALSE,
        value |-> [success |-> FALSE, warning |-> "Missing event ID"]]
  ELSE CASE outcome \in {"http_ok", "client_ok"} ->
              [raised |-> FALSE, marked |-> TRUE, value |-> [success |-> TRUE]]
         [] OTHER -> [raised |-> TRUE, marked |-> FALSE, value |-> NoResult]

\* services/supabaseClient.js markWebhookEventProcessed
markWebhookEventProcessed(eventId, outcome) ==
  IF eventId = NoEventId
  THEN [raised |-> FALSE, marked |-> FALSE,
        value |-> [success |-> FALSE, warning |-> "Missing event ID"]]
  ELSE CASE outcome \in {"http_ok", "client_ok"} ->
              [raised |-> FALSE, marked |-> TRUE, value |-> [success |-> TRUE]]
         [] outcome = "all_failed" ->
              [raised |-> FALSE, marked |-> FALSE,
               value |-> [success |-> TRUE,
                          warning |-> "Could not mark as processed in database, but webhook was processed"]]
         [] outcome = "exception" ->
              [raised |-> FALSE, marked |-> FALSE,
               value |-> [success |-> TRUE,
                          warning |-> "Exception updating database, but webhook was processed"]]

\* A write that puts a fresh row in the place of the stored one.
MarkRow_ReplacesRow(rows, id, t) ==
  [k \in 1..Len(rows) |->
     IF rows[k].id = id
     THEN [rows[k] EXCEPT !.processed = TRUE, !.updatedat = t,
                          !.createdat = t, !.raw_data = NoPayload]
     ELSE rows[k]]

\* PATCH webhook_events?id=eq.<id> {processed: true, updatedat: <now>}
MarkRow(rows, id, t) ==
  [k \in 1..Len(rows) |->
     IF rows[k].id = id
     THEN [rows[k] EXCEPT !.processed = TRUE, !.updatedat = t]
     ELSE rows[k]]

\* the number of rows one accepted PATCH on id changes
Landed(rows, id) == IF \E k \in 1..Len(rows) : rows[k].id = id THEN 1 ELSE 0

maxRetries == 3

Respond(status, success) == [status |-> status, success |-> success]

\* A request arrives while no other is being handled or processed: the
\* validation, then the local backup, then the reference for the record.  A
\* payload without EventId is answered 400.  The local backup catches its
\* own failures, so the handler goes on whether the event was stored
\* locally or not.
Arrive(wd, local) ==
  /\ handler.pc \in {"idle", "responded"}
  /\ job.state \in {"idle", "complete"}
  /\ handler.count < MaxRequests
  /\ LET h == [IdleHandler EXCEPT !.count = handler.count + 1, !.webhookData = wd]
     IN handler' =
          IF wd.EventId = 0
          THEN [h EXCEPT !.pc = "responded", !.response = Respond(400, FALSE)]
          ELSE [h EXCEPT !.pc = "insert",
                         !.reference = eviasignReference(wd.RequestId)]
  /\ job' = IdleJob
  /\ UNCHANGED <<svars, webhook_events, processingEnabled>>

\* A loop that tries once more than maxRetries allows.
Insert_OneMoreAttempt(ok) ==
  /\ handler.pc = "insert"
  /\ IF ok
     THEN /\ webhook_events' =
               Append(webhook_events,
                      EventRow(NewEventId, handler.reference, handler.webhookData))
          /\ handler' = [handler EXCEPT !.pc = "broadcast",
                                        !.attempts = @ + 1,
                                        !.storedEventId = NewEventId]
     ELSE /\ handler' = [handler EXCEPT
                           !.retryCount = @ + 1,
                           !.attempts = @ + 1,
                           !.pc = IF handler.retryCount + 1 < maxRetries + 1
                                  THEN "insert" ELSE "fallback"]
          /\ UNCHANGED webhook_events
  /\ UNCHANGED <<svars, job, processingEnabled>>

\* One attempt of the retry loop: the POST of the record is answered ok, or
\* it is refused or raises and the attempt is counted.
Insert(ok) ==
  /\ handler.pc = "insert"
  /\ IF ok
     THEN /\ webhook_events' =
               Append(webhook_events,
                      EventRow(NewEventId, handler.reference, handler.webhookData))
          /\ handler' = [handler EXCEPT !.pc = "broadcast",
                                        !.attempts = @ + 1,
                                        !.storedEventId = NewEventId]
     ELSE /\ handler' = [handler EXCEPT
                           !.retryCount = @ + 1,
                           !.attempts = @ + 1,
                           !.pc = IF handler.retryCount + 1 < maxRetries
                                  THEN "insert" ELSE "fallback"]
          /\ UNCHANGED webhook_events
  /\ UNCHANGED <<svars, job, processingEnabled>>

\* A fallback that keeps an id only when a row was written.
Fallback_NoVirtualRecord(outcome) ==
  /\ handler.pc = "fallback"
  /\ LET r == insertWebhookEvent(handler.webhookData, outcome, NewEventId, now)
     IN /\ handler' = [handler EXCEPT
                         !.pc = "broadcast",
                         !.fallbacks = @ + 1,
                         !.insertOutcome = outcome,
                         !.insertResult = r,
                         !.storedEventId = IF outcome \in {"http_ok", "client_ok"}
                                           THEN r.data.id ELSE NoEventId]
        /\ webhook_events' =
             IF outcome \in {"http_ok", "client_ok"}
             THEN Append(webhook_events,
                         EventRow(NewEventId,
                                  validRequestId(handler.webhookData.RequestId),
                                  handler.webhookData))
             ELSE webhook_events
  /\ UNCHANGED <<svars, job, processingEnabled>>

\* All attempts failed: insertWebhookEvent(webhookData), whose id is kept
\* when it returns data.
Fallback(outcome) ==
  /\ handler.pc = "fallback"
  /\ LET r == insertWebhookEvent(handler.webhookData, outcome, NewEventId, now)
     IN /\ handler' = [handler EXCEPT
                         !.pc = "broadcast",
                         !.fallbacks = @ + 1,
                         !.insertOutcome = outcome,
                         !.insertResult = r,
                         !.storedEventId = IF "data" \in DOMAIN r
                                           THEN r.data.id ELSE NoEventId]
        /\ webhook_events' =
             IF outcome \in {"http_ok", "client_ok"}
             THEN Append(webhook_events,
                         EventRow(NewEventId,
                                  validRequestId(handler.webhookData.RequestId),
                                  handler.webhookData))
             ELSE webhook_events
  /\ UNCHANGED <<svars, job, processingEnabled>>

\* What a broadcast can come to: delivered to the dashboard clients, no
\* client connected, or io.emit raising.
BroadcastOutcomes == {"delivered", "no_listener", "throws"}

\* A handler that gives up on the request when the broadcast fails.
Broadcast_AbortsOnFailure(outcome) ==
  /\ handler.pc = "broadcast"
  /\ handler' = IF outcome = "throws"
                THEN [handler EXCEPT !.pc = "responded", !.broadcast = outcome,
                                     !.response = Respond(200, FALSE)]
                ELSE [handler EXCEPT !.pc = "emit", !.broadcast = outcome]
  /\ UNCHANGED <<svars, webhook_events, job, processingEnabled>>

\* broadcastWebhook(webhookData), inside its own try/catch and the one of
\* the call site
Broadcast(outcome) ==
  /\ handler.pc = "broadcast"
  /\ handler' = [handler EXCEPT !.pc = "emit", !.broadcast = outcome]
  /\ UNCHANGED <<svars, webhook_events, job, processingEnabled>>

\* A handler that hands every accepted event to the listener, whatever the
\* setting of ENABLE_WEBHOOK_ADDITIONAL_PROCESSING.
Emit_AlwaysProcesses ==
  /\ handler.pc = "emit"
  /\ handler' = [handler EXCEPT !.pc = "responded",
                                !.response = Respond(200, TRUE)]
  /\ Receive(1, handler.webhookData)
  /\ job' = [IdleJob EXCEPT !.state = "processing",
                            !.storedEventId = handler.storedEventId]
  /\ UNCHANGED <<webhook_events, processingEnabled>>

\* The event is handed to the listener when additional processing is
\* enabled (the listener runs up to the lookup it awaits), and the request
\* is answered 200.
Emit ==
  /\ handler.pc = "emit"
  /\ handler' = [handler EXCEPT !.pc = "responded",
                                !.response = Respond(200, TRUE)]
  /\ IF processingEnabled
     THEN /\ Receive(1, handler.webhookData)
          /\ job' = [IdleJob EXCEPT !.state = "processing",
                                    !.storedEventId = handler.storedEventId]
     ELSE UNCHANGED <<svars, job>>
  /\ UNCHANGED <<webhook_events, processingEnabled>>

\* processWebhookEvent -> processSignatureEvent: the lookup and the switch
ProcessorFind(failing, docOutcome) ==
  /\ job.state = "processing"
  /\ Find(1, failing, docOutcome)
  /\ UNCHANGED ivars

\* ... and the write-back
ProcessorUpdate(ok) ==
  /\ job.state = "processing"
  /\ Update(1, ok)
  /\ UNCHANGED ivars

\* What the listener's own PATCH can come to.
PatchOutcomes == {"ok", "not_ok", "exception"}

\* new Date() at the marking: the reading of the clock the row was stored
\* at, or a later one
MarkTimes == {now, now + 1}

\* The listener marks the stored event processed once processWebhookEvent
\* has returned: its own PATCH, then markWebhookEventProcessed when the PATCH
\* was refused; whatever marking raises is caught and logged.
Mark(patch, outcome, t) ==
  /\ job.state = "processing"
  /\ pc[1] = "done"
  /\ IF job.storedEventId = NoEventId \/ patch = "exception"
     THEN /\ job' = [job EXCEPT !.state = "complete"]
          /\ UNCHANGED webhook_events
     ELSE IF patch = "ok"
     THEN /\ job' = [job EXCEPT !.state = "complete",
                                !.marks = @ + Landed(webhook_events, job.storedEventId)]
          /\ webhook_events' = MarkRow(webhook_events, job.storedEventId, t)
     ELSE LET m == markWebhookEventProcessed(job.storedEventId, outcome)
          IN /\ job' = [job EXCEPT !.state = "complete",
                                   !.markCalled = TRUE,
                                   !.markRaised = m.raised,
                                   !.markResult = m.value,
                                   !.marks = IF m.marked
                                             THEN @ + Landed(webhook_events, job.storedEventId)
                                             ELSE @]
             /\ webhook_events' = IF m.marked
                                  THEN MarkRow(webhook_events, job.storedEventId, t)
                                  ELSE webhook_events
  /\ UNCHANGED <<svars, handler, processingEnabled>>

\* the agreements table of the handler's runs
InitIngress ==
  /\ \E r \in InitialRosters :
       agreements = [id \in AgreementIds |->
                       [InitialAgreement(id, r) EXCEPT !.eviasignreference = CanonicalRef]]
  /\ now = 1
  /\ pc = [p \in Procs |-> "idle"]
  /\ webhookData = [p \in Procs |-> NoPayload]
  /\ agreement = [p \in Procs |-> "none"]
  /\ updateData = [p \in Procs |-> NoUpdate]
  /\ result = [p \in Procs |-> NoResult]
  /\ received = 0
  /\ initial = agreements
  /\ applied = << >>
  /\ webhook_events = << >>
  /\ handler = IdleHandler
  /\ job = IdleJob
  /\ processingEnabled \in BOOLEAN

NextIngress ==
  \/ \E wd \in IngressPayloads, local \in {"stored", "failed"} : Arrive(wd, local)
  \/ \E ok \in BOOLEAN : Insert(ok)
  \/ \E outcome \in InsertOutcomes : Fallback(outcome)
  \/ \E outcome \in BroadcastOutcomes : Broadcast(outcome)
  \/ Emit
  \/ \E failing \in LookupFailures, d \in DocOutcomesFor(webhookData[1]) :
       ProcessorFind(failing, d)
  \/ \E ok \in BOOLEAN : ProcessorUpdate(ok)
  \/ \E patch \in PatchOutcomes, outcome \in MarkOutcomes, t \in MarkTimes :
       Mark(patch, outcome, t)

\* One request at a time through the handler and the listener, at one
\* reading of the clock.
SpecIngress == InitIngress /\ [][NextIngress]_vars

\* ------------------------------------------------- one delivery per outcome
\* Deliveries that between them end in every return of processSignatureEvent:
\* invalid data, no agreement found, the default branch, an exception in the
\* switch, a failed and a successful write-back (with and without document).
OutcomePayloads ==
  {Payload(Undefined, SIGN_REQUEST_RECEIVED, Undefined, Undefined, 1, NoDocuments),
   Payload(RefUnknown, SIGN_REQUEST_RECEIVED, Undefined, Undefined, 1, NoDocuments),
   Payload(RefA, UnrecognizedCode, Undefined, Undefined, 1, NoDocuments),
   Payload(RefA, SIGNATORY_COMPLETED, Undefined, Undefined, 1, NoDocuments),
   Payload(RefA, SIGNATORY_COMPLETED, Undefined, BobEmail, 1, NoDocuments),
   Payload(RefA, SIGNATORY_COMPLETED, JaneDoe, JaneEmail, 1, NoDocuments),
   Payload(RefA, REQUEST_COMPLETED, Undefined, Undefined, 1, OneDocument)}

NextOutcome ==
  \/ \E wd \in OutcomePayloads : Receive(1, wd) /\ UNCHANGED ivars
  \/ \E failing \in LookupFailures, d \in DocOutcomesFor(webhookData[1]) :
       Find(1, failing, d) /\ UNCHANGED ivars
  \/ \E ok \in BOOLEAN : Update(1, ok) /\ UNCHANGED ivars

\* One invocation at a time, at one reading of the clock.
SpecOutcome == Init /\ [][NextOutcome]_vars

\* ------------------------------------------------------ the state-flow test
\* scripts/test-state-flow.js: an agreement whose roster is seeded with the
\* two signers, pending, and the four events of a complete signing.
MaxFlowEvents == 4

LandlordEmail == <<"landlord", "@", "example.com">>
TenantEmail == <<"tenant", "@", "example.com">>

SeededRoster ==
  <<[email |-> LandlordEmail, name |-> <<"John", " ", "Landlord">>,
     type |-> <<"landlord">>, status |-> "pending", reference |-> "landlord-ref-123"],
    [email |-> TenantEmail, name |-> <<"Jane", " ", "Tenant">>,
     type |-> <<"tenant">>, status |-> "pending", reference |-> "tenant-ref-456"]>>

FlowEvents ==
  <<Payload(RefA, SIGN_REQUEST_RECEIVED, <<"Test", " ", "User">>,
            <<"test", "@", "example.com">>, 1, NoDocuments),
    Payload(RefA, SIGNATORY_COMPLETED, <<"John", " ", "Landlord">>,
            LandlordEmail, 2, NoDocuments),
    Payload(RefA, SIGNATORY_COMPLETED, <<"Jane", " ", "Tenant">>,
            TenantEmail, 3, NoDocuments),
    Payload(RefA, REQUEST_COMPLETED, <<"Admin", " ", "User">>,
            <<"admin", "@", "example.com">>, 4, NoDocuments)>>

InitFlow ==
  /\ agreements = [id \in AgreementIds |-> InitialAgreement(id, SeededRoster)]
  /\ now = 1
  /\ pc = [p \in Procs |-> "idle"]
  /\ webhookData = [p \in Procs |-> NoPayload]
  /\ agreement = [p \in Procs |-> "none"]
  /\ updateData = [p \in Procs |-> NoUpdate]
  /\ result = [p \in Procs |-> NoResult]
  /\ received = 0
  /\ initial = agreements
  /\ applied = << >>
  /\ webhook_events = << >>
  /\ handler = IdleHandler
  /\ job = IdleJob
  /\ processingEnabled = FALSE

\* The events are delivered one at a time, in any order and number up to
\* MaxFlowEvents.
NextFlow ==
  \/ \E k \in 1..Len(FlowEvents) :
       received < MaxFlowEvents /\ Accept(1, FlowEvents[k]) /\ UNCHANGED ivars
  \/ \E failing \in LookupFailures : Find(1, failing, "no_document") /\ UNCHANGED ivars
  \/ \E ok \in BOOLEAN : Update(1, ok) /\ UNCHANGED ivars

SpecFlow == InitFlow /\ [][NextFlow]_vars

\* ------------------------------------------------ lookups over two agreements
\* the canonical reference in capitals, its first eight characters, and the
\* reference of another request
UpperRef ==
  [i \in 1..Len(CanonicalRef) |->
     CASE CanonicalRef[i] = "a" -> "A" [] CanonicalRef[i] = "b" -> "B"
       [] CanonicalRef[i] = "c" -> "C" [] CanonicalRef[i] = "d" -> "D"
       [] CanonicalRef[i] = "e" -> "E" [] CanonicalRef[i] = "f" -> "F"
       [] OTHER -> CanonicalRef[i]]

PartialRef == SubSeq(CanonicalRef, 1, 8)

OtherRef == [CanonicalRef EXCEPT ![Len(CanonicalRef)] = "2"]

LocateIds == {"A1", "A2"}

\* what the two reference columns of an agreement hold
LocateRows ==
  {[InitialAgreement("A1", << >>) EXCEPT !.eviasignreference = e,
                                        !.signature_request_id = r] :
     e \in {CanonicalRef, OtherRef}, r \in {Null, CanonicalRef}}

LocatePayloads ==
  {Payload(r, SIGN_REQUEST_RECEIVED, Undefined, Undefined, 1, NoDocuments) :
     r \in {CanonicalRef, UpperRef, PartialRef}}

InitLocate ==
  /\ \E t \in [LocateIds -> LocateRows] :
       agreements = [id \in LocateIds |-> [t[id] EXCEPT !.id = id]]
  /\ now = 1
  /\ pc = [p \in Procs |-> "idle"]
  /\ webhookData = [p \in Procs |-> NoPayload]
  /\ agreement = [p \in Procs |-> "none"]
  /\ updateData = [p \in Procs |-> NoUpdate]
  /\ result = [p \in Procs |-> NoResult]
  /\ received = 0
  /\ initial = agreements
  /\ applied = << >>
  /\ webhook_events = << >>
  /\ handler = IdleHandler
  /\ job = IdleJob
  /\ processingEnabled = FALSE

NextLocate ==
  \/ \E wd \in LocatePayloads : Receive(1, wd) /\ UNCHANGED ivars
  \/ \E failing \in LookupFailures : Find(1, failing, "no_document") /\ UNCHANGED ivars
  \/ \E ok \in BOOLEAN : Update(1, ok) /\ UNCHANGED ivars

\* One delivery at a time looked up in a table of two agreements.
SpecLocate == InitLocate /\ [][NextLocate]_vars

\* ------------------------------------------------------- a store gone silent
\* The calls made through the client go through customFetch, which aborts
\* them after 15 seconds: a silent store is one more failure of theirs.  The
\* POST of insertWebhookEvent and the PATCH of markWebhookEventProcessed call
\* node-fetch itself, without signal: when the store takes the request and
\* never answers, the await never settles.

\* insertWebhookEvent awaits the answer to its POST
FallbackUnanswered ==
  /\ handler.pc = "fallback"
  /\ handler' = [handler EXCEPT !.pc = "awaiting", !.fallbacks = @ + 1]
  /\ UNCHANGED <<svars, webhook_events, job, processingEnabled>>

\* the listener's PATCH was refused and markWebhookEventProcessed awaits the
\* answer to its own
MarkUnanswered ==
  /\ job.state = "processing"
  /\ pc[1] = "done"
  /\ job.storedEventId # NoEventId
  /\ job' = [job EXCEPT !.state = "awaiting", !.markCalled = TRUE]
  /\ UNCHANGED <<svars, webhook_events, handler, processingEnabled>>

NextSilent ==
  \/ NextIngress
  \/ FallbackUnanswered
  \/ MarkUnanswered

\* The handler and the listener in front of a store that may stop answering.
SpecSilent == InitIngress /\ [][NextSilent]_vars

\* ------------------------------------------------------ answers that get lost
\* The POST of the retry loop takes effect in the store and its answer does
\* not reach the handler (the connection drops, or the body cannot be read):
\* fetch or json() raises, the catch counts a failed attempt, and the same
\* record, which carries no id of its own, is posted again.
InsertAnswerLost ==
  /\ handler.pc = "insert"
  /\ webhook_events' =
       Append(webhook_events,
              EventRow(NewEventId, handler.reference, handler.webhookData))
  /\ handler' = [handler EXCEPT
                   !.retryCount = @ + 1,
                   !.attempts = @ + 1,
                   !.pc = IF handler.retryCount + 1 < maxRetries
                          THEN "insert" ELSE "fallback"]
  /\ UNCHANGED <<svars, job, processingEnabled>>

NextLossy ==
  \/ NextIngress
  \/ InsertAnswerLost

\* The handler and the listener behind a connection that may drop answers.
SpecLossy == InitIngress /\ [][NextLossy]_vars

\* ===================================================================== claims
Roster(id) == agreements[id].signatories_status

\* the number of roster entries whose email is `email`
EntriesFor(roster, email) ==
  Cardinality({k \in 1..Len(roster) : FieldOf(roster[k], "email") = email})

\* C1: once an agreement's lifecycle status is Active, no later
\* signer-completed or request-received event moves it back to
\* PendingActivation.  (Only those two events write pending_activation.)
C1_NoRegressionFromActive ==
  [][\A id \in AgreementIds :
       agreements[id].status = "active" => agreements'[id].status # "pending_activation"]_vars

\* C2: Active and Rejected are terminal: a Rejected agreement is never moved
\* to Active or PendingActivation, an Active one is never moved to Rejected.
C2_TerminalLifecycle ==
  [][\A id \in AgreementIds :
       /\ agreements[id].status = "rejected" =>
            agreements'[id].status \notin {"active", "pending_activation"}
       /\ agreements[id].status = "active" => agreements'[id].status # "rejected"]_vars

\* C3: when the same signer-completed event has been applied twice in
\* sequence, the roster holds exactly one entry for that signer's email.
C3_IdempotentRosterMerge ==
  \A id \in AgreementIds :
    LET n == Len(applied)
    IN (/\ n >= 2
        /\ applied[n] = applied[n - 1]
        /\ applied[n].EventId = 2)
       => EntriesFor(Roster(id), applied[n].Email) = 1

C3_Witness ==
  /\ Len(applied) = 2
  /\ applied[1] = applied[2]
  /\ applied[1].EventId = 2
  /\ applied[1].Email = BobEmail
  /\ Len(Roster("A1")) = 1

\* C4: in every reachable state a roster holds at most one entry per email,
\* for any sequence and interleaving of processed events.
C4_OneEntryPerEmail ==
  \A id \in AgreementIds :
    \A i, j \in 1..Len(Roster(id)) :
      i # j => FieldOf(Roster(id)[i], "email") # FieldOf(Roster(id)[j], "email")

\* two overlapping invocations have both written a signer-completed event
\* for the email the roster already held
C4_Witness ==
  /\ Len(initial["A1"].signatories_status) = 1
  /\ \A p \in {1, 2} :
       /\ pc[p] = "done"
       /\ result[p].success
       /\ result[p].agreementProcessed
       /\ webhookData[p].EventId = 2
       /\ webhookData[p].Email = JaneEmail
  /\ Len(Roster("A1")) = 1

\* C5: two signer-completed events for different signer emails on the same
\* agreement, processed concurrently without locking: the final roster
\* contains a completed entry for both signers.
C5_ConcurrentSignersBothRecorded ==
  \A p, q \in Procs :
    (/\ p # q
     /\ pc[p] = "done" /\ pc[q] = "done"
     /\ result[p].success /\ result[q].success
     /\ result[p].agreementProcessed /\ result[q].agreementProcessed
     /\ agreement[p] = agreement[q]
     /\ webhookData[p].EventId = 2 /\ webhookData[q].EventId = 2
     /\ webhookData[p].Email # webhookData[q].Email)
    => \E k \in 1..Len(Roster(agreement[p])) :
         /\ FieldOf(Roster(agreement[p])[k], "email") = webhookData[p].Email
         /\ Roster(agreement[p])[k].status = "completed"

\* what the order of processing is claimed not to change: lifecycle status,
\* signature status and roster
Outcome(row) == <<row.status, row.signature_status, row.signatories_status>>

\* a roster without its timestamps
WithoutSignedAt(roster) ==
  [k \in 1..Len(roster) |->
     [f \in DOMAIN roster[k] \ {"signedAt"} |-> roster[k][f]]]

OutcomeModuloTime(row) ==
  <<row.status, row.signature_status, WithoutSignedAt(row.signatories_status)>>

\* the table after processing wd against `rows` with every store call
\* succeeding
Processed(rows, wd, t) ==
  IF InvalidData(wd) THEN rows
  ELSE LET id == findAgreementByEviaReference(rows, wd.RequestId, {})
       IN IF id = "none" THEN rows
          ELSE LET b == BuildUpdate(rows[id], wd, t, "uploaded")
               IN IF b.kind = "update" THEN ApplyUpdate(rows, id, b.data) ELSE rows

\* C6: two events for the same agreement, processed one after the other,
\* leave the same lifecycle status, signature status and roster in either
\* order; only timestamps may differ.
C6_OrderIndependent ==
  Len(applied) = 2 =>
    \A id \in AgreementIds :
      OutcomeModuloTime(agreements[id]) =
        OutcomeModuloTime(Processed(Processed(initial, applied[2], now), applied[1], now)[id])

\* invocation p's write-back is applied in this step
Written(p) ==
  /\ pc[p] = "update"
  /\ pc'[p] = "done"
  /\ result'[p].agreementProcessed

\* ... and it writes the event that the previous write-back wrote
Redelivered(p) ==
  /\ Written(p)
  /\ applied # << >>
  /\ applied[Len(applied)] = webhookData[p]

\* C7 as stated: processing the same event a second time leaves lifecycle
\* status, signature status and roster equal to their values after the first
\* processing.
C7_RedeliveryChangesNothing ==
  [][\A p \in Procs :
       Redelivered(p) =>
         Outcome(agreements'[agreement[p]]) = Outcome(agreements[agreement[p]])]_vars

\* C7 amended: ... equal to their values after the first processing, except
\* that the signer's signedAt takes the time of the second processing when the
\* event carries no event time.
C7_RedeliveryChangesOnlySignedAt ==
  [][\A p \in Procs :
       Redelivered(p) =>
         /\ OutcomeModuloTime(agreements'[agreement[p]])
              = OutcomeModuloTime(agreements[agreement[p]])
         /\ webhookData[p].EventTime # NoTime =>
              Outcome(agreements'[agreement[p]]) = Outcome(agreements[agreement[p]])]_vars

C7_Witness ==
  /\ Len(applied) = 2
  /\ applied[1] = applied[2]
  /\ applied[1].EventId = 2
  /\ applied[1].Email = JaneEmail
  /\ applied[1].EventTime # NoTime
  /\ Len(initial["A1"].signatories_status) = 1
  /\ pc[1] = "done"

FirstAt(email) ==
  CHOOSE i \in 1..(Len(email) + 1) :
    /\ i <= Len(email) => email[i] = "@"
    /\ \A j \in 1..(i - 1) : email[j] # "@"

\* the signer name: the display name if present, else the email's local part
ClaimedName(wd) ==
  IF wd.UserName # Undefined /\ wd.UserName # << >>
  THEN wd.UserName
  ELSE SubSeq(wd.Email, 1, FirstAt(wd.Email) - 1)

\* every space replaced by an underscore
EachSpaceReplaced(s) == [i \in 1..Len(s) |-> IF s[i] = " " THEN "_" ELSE s[i]]

\* every run of spaces replaced by one underscore: the spaces that follow a
\* space are dropped, the others replaced
RunsOfSpacesReplaced(s) ==
  LET kept == {i \in 1..Len(s) : ~(s[i] = " " /\ i > 1 /\ s[i - 1] = " ")}
      nth(k) == CHOOSE i \in kept : Cardinality({j \in kept : j <= i}) = k
  IN [k \in 1..Cardinality(kept) |-> IF s[nth(k)] = " " THEN "_" ELSE s[nth(k)]]

HasCompleted(roster, email) ==
  \E k \in 1..Len(roster) :
    FieldOf(roster[k], "email") = email /\ roster[k].status = "completed"

Unrecognized(wd) == wd.EventId \notin {1, 2, 3, 5}

\* the delivery's reference is that of an agreement, and the lookup did not
\* come back empty-handed
Located(p) ==
  /\ \E id \in AgreementIds : agreements[id].eviasignreference = webhookData[p].RequestId
  /\ ~("error" \in DOMAIN result[p] /\ result[p].error = "No matching agreement found")

\* C10: an event whose numeric code is not 1, 2, 3 or 5 is accepted, the
\* located agreement is left completely unchanged and a no-op result that is
\* not an error is returned.
C10_UnrecognizedCodeIsNoop ==
  /\ [](\A p \in Procs :
          (pc[p] = "done" /\ Unrecognized(webhookData[p]) /\ Located(p)) =>
            /\ result[p].success
            /\ "error" \notin DOMAIN result[p]
            /\ ~result[p].agreementProcessed)
  /\ [][\A p \in Procs :
          (pc'[p] # pc[p] /\ Unrecognized(webhookData'[p])) => agreements' = agreements]_vars

\* no strategy of the lookup has a row to return for this reference
NoMatch(requestId) ==
  \A k \in 1..Len(Strategies) : QueryRows(Strategies[k], agreements, requestId) = {}

\* C11: when no agreement matches the event's reference, processing does not
\* abort and does not raise: the invocation returns a partial success
\* (success, recordingSuccess, not agreementProcessed) and the lookup step
\* leaves every agreement as it was.
C11_NotFoundIsPartialSuccess ==
  [][\A p \in Procs :
       (pc[p] = "find" /\ pc'[p] # "find" /\ NoMatch(webhookData[p].RequestId)) =>
         /\ pc'[p] = "done"
         /\ result'[p].success
         /\ result'[p].recordingSuccess
         /\ ~result'[p].agreementProcessed
         /\ agreements' = agreements]_vars

\* a delivery with an unknown reference has returned
C11_Witness ==
  /\ pc[1] = "done"
  /\ webhookData[1].RequestId = RefUnknown
  /\ result[1] = PartialResult("No matching agreement found")
  /\ agreements = initial

ResultFields == {"success", "recordingSuccess", "agreementProcessed"}

\* C12 as stated: for every payload and every combination of failures, the
\* invocation never raises and always returns a result carrying success,
\* recordingSuccess and agreementProcessed.
C12_AlwaysFullResult ==
  \A p \in Procs :
    /\ pc[p] # "raised"
    /\ pc[p] = "done" => ResultFields \subseteq DOMAIN result[p]

\* C12 amended: the invocation never raises; a payload that passes
\* validation always gets a result carrying success (true), recordingSuccess
\* and agreementProcessed, with agreementId when processed and an error or a
\* message when not; a payload that fails validation gets
\* {success: false, error} and nothing else.
C12_FullResultWhenValid ==
  \A p \in Procs :
    /\ pc[p] # "raised"
    /\ pc[p] = "done" =>
         IF InvalidData(webhookData[p])
         THEN result[p] = InvalidResult
         ELSE /\ ResultFields \subseteq DOMAIN result[p]
              /\ result[p].success
              /\ result[p].recordingSuccess
              /\ IF result[p].agreementProcessed
                 THEN "agreementId" \in DOMAIN result[p]
                 ELSE DOMAIN result[p] \cap {"error", "message"} # {}

\* an exception of the switch, raised after the agreement was located, has
\* been answered by the outer catch
C12_Witness ==
  /\ pc[1] = "done"
  /\ SignerThrows(webhookData[1])
  /\ agreement[1] # "none"
  /\ result[1] = PartialResult("TypeError")

\* the delivery being processed is a request-completed one with a document
CompletedWithDocument(wd) ==
  wd.EventId = REQUEST_COMPLETED /\ Len(wd.Documents) > 0

\* the document branch did not come to a public URL: nothing was saved, or
\* only the local copy was
DocumentFailed(data) ==
  \/ "signed_document_url" \notin DOMAIN data
  \/ data.signed_document_url # PublicUrl("A1")

\* C14: if saving or uploading the signed document fails while a
\* request-completed event is processed, the lifecycle update is neither
\* aborted nor rolled back: once the agreement is located the update to
\* active / signing_complete is built and sent, and when the write-back
\* succeeds the agreement is active / signing_complete and the event is
\* reported as processed.
C14_DocumentFailureKeepsLifecycle ==
  [][\A p \in Procs :
       /\ (/\ pc[p] = "find" /\ pc'[p] # "find"
           /\ CompletedWithDocument(webhookData[p])
           /\ agreement'[p] # "none") =>
            /\ pc'[p] = "update"
            /\ updateData'[p].status = ACTIVE
            /\ updateData'[p].signature_status = SIGNING_COMPLETE
       /\ (/\ Written(p)
           /\ CompletedWithDocument(webhookData[p])
           /\ DocumentFailed(updateData[p])) =>
            /\ agreements'[agreement[p]].status = ACTIVE
            /\ agreements'[agreement[p]].signature_status = SIGNING_COMPLETE
            /\ result'[p].success
            /\ result'[p].agreementProcessed]_vars

\* a request-completed event with a document has been written back although
\* nothing of the document was saved
C14_Witness ==
  /\ pc[1] = "done"
  /\ CompletedWithDocument(webhookData[1])
  /\ result[1].success
  /\ result[1].agreementProcessed
  /\ "signed_document_url" \notin DOMAIN result[1].updates
  /\ agreements["A1"].status = ACTIVE
  /\ agreements["A1"].signature_status = SIGNING_COMPLETE
  /\ agreements["A1"].signed_document_url = Null

\* the rows of webhook_events whose id is `id`
RowsWithId(id) == {k \in 1..Len(webhook_events) : webhook_events[k].id = id}

\* C13 as stated: when the primary write of insertWebhookEvent fails (it is
\* refused, or a call raises), the function still returns a usable record
\* id, a real one if the alternate write succeeds and a virtual one
\* otherwise, and the result is success=true with a warning.
C13_PrimaryFailureWarns ==
  handler.insertOutcome \in {"client_ok", "client_error", "exception"} =>
    LET r == handler.insertResult
    IN /\ r.success
       /\ "data" \in DOMAIN r
       /\ r.data.id # NoEventId
       /\ ("virtual" \in DOMAIN r.data) = (handler.insertOutcome # "client_ok")
       /\ "warning" \in DOMAIN r

\* C13 amended: ... the result is success=true; it carries a real id and no
\* warning when the primary write is refused and the alternate write
\* succeeds, and otherwise a virtual id marked virtual together with a
\* warning; the request is then answered 200 with success=true.
C13_PrimaryFailureDegrades ==
  handler.insertOutcome \in {"client_ok", "client_error", "exception"} =>
    LET r == handler.insertResult
    IN /\ r.success
       /\ "data" \in DOMAIN r
       /\ r.data.id # NoEventId
       /\ handler.storedEventId = r.data.id
       /\ IF handler.insertOutcome = "client_ok"
          THEN /\ "virtual" \notin DOMAIN r.data
               /\ "warning" \notin DOMAIN r
               /\ RowsWithId(r.data.id) # {}
          ELSE /\ r.data.virtual
               /\ "warning" \in DOMAIN r
               /\ RowsWithId(r.data.id) = {}
       /\ handler.pc = "responded" => handler.response = Respond(200, TRUE)

\* every write failed, a virtual id was returned and the request answered
C13_Witness ==
  /\ handler.pc = "responded"
  /\ handler.retryCount = maxRetries
  /\ handler.insertOutcome = "client_error"
  /\ handler.insertResult.data.virtual
  /\ handler.storedEventId = <<"local-", now>>
  /\ handler.response = Respond(200, TRUE)

\* C15: after a request-completed event carrying one document has been
\* processed with storage succeeding, the agreement and the stored webhook
\* event it came from both expose an artifact locator, and the same one.
C15_SameArtifactLocator ==
  (/\ job.state = "complete"
   /\ CompletedWithDocument(webhookData[1])
   /\ result[1].success
   /\ "agreementId" \in DOMAIN result[1]
   /\ "signed_document_url" \in DOMAIN result[1].updates
   /\ result[1].updates.signed_document_url = PublicUrl("A1")
   /\ RowsWithId(job.storedEventId) # {}) =>
     \A k \in RowsWithId(job.storedEventId) :
       /\ agreements["A1"].signed_document_url # Null
       /\ webhook_events[k].document_url # Null
       /\ webhook_events[k].document_url = agreements["A1"].signed_document_url

\* 8-4-4-4-12: hexadecimal groups separated by dashes
Canonical(str) ==
  /\ Len(str) = 36
  /\ \A i \in 1..36 :
       IF i \in {9, 14, 19, 24} THEN str[i] = "-" ELSE str[i] \in HexDigits

\* a reference that is not a UUID as it comes but has 32 hexadecimal
\* characters once the others are stripped
NearCanonical(str) ==
  Truthy(str) /\ ~isUUID(str) /\ Len(StripNonHex(str)) = 32

\* C16: a reference that is not in canonical form but has the expected
\* number of hexadecimal characters once stray characters are stripped is
\* normalized to the canonical 8-4-4-4-12 form, and processing an event
\* carrying it locates the agreement the canonical form locates.
C16_NormalizedReferenceLocates ==
  (job.state = "complete" /\ NearCanonical(webhookData[1].RequestId)) =>
    /\ Canonical(handler.reference)
    /\ findAgreementByEviaReference(agreements, webhookData[1].RequestId, {})
         = findAgreementByEviaReference(agreements, handler.reference, {})

\* C17: whichever internal step fails, every request is answered with an
\* acknowledgement of receipt (HTTP 200).
C17_AlwaysAcknowledges ==
  handler.pc = "responded" => handler.response.status = 200

\* C18: the broadcast to the dashboard never affects reconciliation: whether
\* it is delivered, has no listener or throws, the handler goes on to hand
\* the event over, and the stored events, the agreements and the listener
\* are as they were.
C18_BroadcastNeverAffects ==
  [][(handler.pc = "broadcast" /\ handler'.pc # "broadcast") =>
       /\ handler' = [handler EXCEPT !.pc = "emit", !.broadcast = handler'.broadcast]
       /\ handler'.broadcast \in BroadcastOutcomes
       /\ svars' = svars
       /\ webhook_events' = webhook_events
       /\ job' = job]_vars

\* the broadcast threw, and the event was stored, reconciled and marked
C18_Witness ==
  /\ handler.broadcast = "throws"
  /\ handler.response = Respond(200, TRUE)
  /\ job.state = "complete"
  /\ result[1].success
  /\ "agreementId" \in DOMAIN result[1]
  /\ agreements["A1"].status = ACTIVE
  /\ \E k \in RowsWithId(job.storedEventId) : webhook_events[k].processed

\* C19: markWebhookEventProcessed never raises to its caller, and a failure
\* to mark does not fail the request: the call returns a non-failing
\* outcome, the listener completes, and the response and the processing
\* result stay as they were.
C19_MarkingNeverFails ==
  [][(job.state = "processing" /\ job'.state # "processing") =>
       /\ job'.state = "complete"
       /\ ~job'.markRaised
       /\ job'.markCalled => job'.markResult.success
       /\ handler' = handler
       /\ result' = result
       /\ agreements' = agreements]_vars

\* every write path of the marking failed and the listener completed
C19_Witness ==
  /\ job.state = "complete"
  /\ job.markCalled
  /\ "warning" \in DOMAIN job.markResult
  /\ job.markResult.success
  /\ \A k \in RowsWithId(job.storedEventId) : ~webhook_events[k].processed
  /\ RowsWithId(job.storedEventId) # {}
  /\ handler.response = Respond(200, TRUE)

\* C20: the agreement update for an event is always performed before that
\* event is stored in webhook_events, and the event is stored only after
\* the agreement processing succeeded.
C20_AgreementUpdatedBeforeEventStored ==
  [][Len(webhook_events') > Len(webhook_events) =>
       LET stored == webhook_events'[Len(webhook_events')].raw_data
       IN \E k \in 1..Len(applied) : applied[k] = stored]_vars

\* the agreement update of the event the listener holds was written back
AgreementUpdated ==
  /\ result[1].success
  /\ "agreementProcessed" \in DOMAIN result[1]
  /\ result[1].agreementProcessed

\* C21: a webhook event is marked processed only after both the agreement
\* update and the storing of the event have succeeded; an event whose
\* agreement update failed or was skipped is never marked processed.
C21_MarkedOnlyAfterAgreementUpdate ==
  job.state = "complete" =>
    \A k \in RowsWithId(job.storedEventId) :
      webhook_events[k].processed => AgreementUpdated

\* C22: after a RequestCompleted event (code 3) has been processed for an
\* agreement, the agreement's signature_status is "signed".
C22_CompletedIsSigned ==
  [][\A p \in Procs :
       (Written(p) /\ webhookData[p].EventId = REQUEST_COMPLETED) =>
         agreements'[agreement[p]].signature_status = <<"signed">>]_vars

\* the fields a signer-completed event supplies for its roster entry
SuppliedFields == {"name", "email", "type", "status", "signedAt"}

\* the positions of the roster entries whose email is `email`
PositionsOf(roster, email) ==
  {k \in 1..Len(roster) : FieldOf(roster[k], "email") = email}

AttemptEnds ==
  /\ job.state = "processing"
  /\ job'.state = "complete"
  /\ RowsWithId(job.storedEventId) # {}

\* the row keeps every field outside `fields`
KeepsAllBut(fields) ==
  /\ Len(webhook_events') >= Len(webhook_events)
  /\ \A k \in 1..Len(webhook_events) :
       /\ DOMAIN webhook_events'[k] = DOMAIN webhook_events[k]
       /\ \A f \in DOMAIN webhook_events[k] \ fields :
            webhook_events'[k][f] = webhook_events[k][f]

\* C24 as stated: a persisted webhook event is immutable except for its
\* processed / processing-error fields, and within each processing attempt
\* those fields are written exactly once (not zero times and not twice,
\* across the direct write, its fallback and the error path).
C24_ImmutableWrittenOnce ==
  [][/\ KeepsAllBut({"processed", "error_message"})
     /\ AttemptEnds => job'.marks = 1]_vars

\* C24 amended: a persisted webhook event keeps every field except processed,
\* error_message and the modification time updatedat, which each marking
\* write sets anew; within each processing attempt the marking is written at
\* most once, and exactly once when the store accepts the direct write or,
\* after refusing it, the write of markWebhookEventProcessed.
C24_ImmutableWrittenAtMostOnce ==
  [][/\ KeepsAllBut({"processed", "error_message", "updatedat"})
     /\ AttemptEnds =>
          /\ job'.marks <= 1
          /\ job'.marks = 1 <=>
               \E k \in RowsWithId(job.storedEventId) :
                 /\ ~webhook_events[k].processed
                 /\ webhook_events'[k].processed]_vars

\* the direct write was refused and the fallback marked the stored event, at
\* a later reading of the clock
C24_Witness ==
  /\ job.state = "complete"
  /\ job.markCalled
  /\ job.marks = 1
  /\ \E k \in RowsWithId(job.storedEventId) :
       /\ webhook_events[k].processed
       /\ webhook_events[k].updatedat > webhook_events[k].createdat
       /\ webhook_events[k].raw_data = handler.webhookData

\* the handler is past the recording of a request that passed validation
Recorded == handler.pc \in {"broadcast", "emit"} \/
            (handler.pc = "responded" /\ handler.webhookData.EventId # 0)

\* C25: on transient store failure the primary write of an event is retried
\* only once or twice (at most three attempts in total, each retry following a
\* failed attempt, none after a success), after which the flow degrades to the
\* fallback / virtual record path exactly once; the failure is never surfaced
\* as a hard failure to the caller.
C25_BoundedRetriesThenFallback ==
  /\ handler.attempts <= 3
  /\ handler.fallbacks <= 1
  /\ handler.attempts - handler.retryCount \in {0, 1}
  /\ handler.pc = "insert" => handler.attempts = handler.retryCount
  /\ handler.fallbacks = 1 =>
       handler.attempts = 3 /\ handler.retryCount = 3
  /\ Recorded =>
       /\ handler.attempts >= 1
       /\ handler.fallbacks = 1 <=> handler.retryCount = handler.attempts
  /\ (Recorded /\ handler.pc = "responded") => handler.response = Respond(200, TRUE)

\* three refused attempts, then the fallback once, which could not write
\* either; the request was answered 200 with success=true
C25_Witness ==
  /\ handler.pc = "responded"
  /\ handler.attempts = 3
  /\ handler.retryCount = 3
  /\ handler.fallbacks = 1
  /\ handler.insertOutcome = "exception"
  /\ handler.response = Respond(200, TRUE)

\* C26: no operation blocks indefinitely: every external-store call made
\* while recording, locating, updating or marking is bounded by a timeout,
\* after which it is treated as a failure and the degraded / fallback path is
\* taken, so no invocation is ever left awaiting an answer that does not come.
C26_NoCallBlocksForever ==
  /\ handler.pc # "awaiting"
  /\ job.state # "awaiting"

\* the agreements a strategy's query is answered with: none when the query
\* fails, else those whose column equals the reference
HitsOf(strategy, requestId, failing) ==
  IF strategy \in failing THEN {}
  ELSE IF strategy = "alt"
  THEN {id \in DOMAIN agreements : agreements[id].signature_request_id = requestId}
  ELSE {id \in DOMAIN agreements : agreements[id].eviasignreference = requestId}

LookupOrder == <<"cast", "direct", "alt", "rpc">>

\* C27: agreement lookup tries its strategies in a fixed order (primary
\* reference field, then secondary reference field, then later fallbacks) and
\* stops at the first hit: the agreement found is one the first answered
\* strategy with a hit returned, and when one agreement matches on the primary
\* field and a different one on the secondary field, the primary-field match
\* is the one returned.
C27_FirstHitInOrder ==
  \A p \in Procs :
    pc[p] = "find" =>
      \A failing \in LookupFailures :
        LET ref == webhookData[p].RequestId
            found == findAgreementByEviaReference(agreements, ref, failing)
        IN /\ (\A i \in 1..4 : HitsOf(LookupOrder[i], ref, failing) = {}) =>
                found = "none"
           /\ \A i \in 1..4 :
                (/\ HitsOf(LookupOrder[i], ref, failing) # {}
                 /\ \A j \in 1..(i - 1) : HitsOf(LookupOrder[j], ref, failing) = {}) =>
                  found \in HitsOf(LookupOrder[i], ref, failing)
           /\ (HitsOf("cast", ref, failing) \cup HitsOf("direct", ref, failing)) # {} =>
                agreements[found].eviasignreference = ref

\* A1 carries the reference in its primary field, A2 in its secondary field
\* only, and the lookup returned A1
C27_Witness ==
  /\ pc[1] \in {"update", "done"}
  /\ DOMAIN agreements = LocateIds
  /\ agreements["A1"].eviasignreference = webhookData[1].RequestId
  /\ agreements["A2"].eviasignreference # webhookData[1].RequestId
  /\ agreements["A2"].signature_request_id = webhookData[1].RequestId
  /\ agreement[1] = "A1"

UUIDShaped(str) ==
  \/ str = GeneratedUUID
  \/ /\ Len(str) = 36
     /\ \A i \in 1..36 :
          IF i \in {9, 14, 19, 24} THEN str[i] = "-" ELSE str[i] \in HexDigits

\* C29: every webhook event record handed to the store for an event that
\* carries a reference has a reference in the UUID shape: a valid reference is
\* kept, a malformed one is normalized where possible and otherwise replaced
\* by a freshly generated one; a malformed reference is never stored as
\* received, and the event is still recorded.
C29_StoredReferenceIsUUIDShaped ==
  /\ (handler.pc = "insert" /\ Truthy(handler.webhookData.RequestId)) =>
       UUIDShaped(handler.reference)
  /\ \A k \in 1..Len(webhook_events) :
       Truthy(webhook_events[k].raw_data.RequestId) =>
         UUIDShaped(webhook_events[k].eviasignreference)

\* the document of the event invocation p holds was saved and the update it
\* built carries the locator
ArtifactCaptured(p) ==
  /\ CompletedWithDocument(webhookData[p])
  /\ "signed_document_url" \in DOMAIN updateData[p]

\* C30: within one processing of a request-completed event, artifact capture
\* (saving / uploading the document) takes place only after the computed
\* lifecycle update has been written back to the agreement.
C30_CaptureAfterWriteBack ==
  \A p \in Procs :
    ArtifactCaptured(p) =>
      /\ pc[p] = "done"
      /\ result[p].success
      /\ "agreementProcessed" \in DOMAIN result[p]
      /\ result[p].agreementProcessed

\* the id the listener was given is the id of a stored row, or the id of the
\* virtual record the adapter made up
RecordedOrVirtual(id) ==
  \/ RowsWithId(id) # {}
  \/ /\ "data" \in DOMAIN handler.insertResult
     /\ "virtual" \in DOMAIN handler.insertResult.data
     /\ handler.insertResult.data.id = id

ProcessedWithoutArtifact(p) ==
  /\ pc[p] = "done"
  /\ CompletedWithDocument(webhookData[p])
  /\ "agreementProcessed" \in DOMAIN result[p]
  /\ result[p].agreementProcessed
  /\ DocumentFailed(result[p].updates)

\* C32: when artifact capture fails during a request-completed event whose
\* lifecycle update succeeds, the returned outcome reports the artifact
\* failure as a partial-success warning: the result carries a warning or an
\* error that a fully successful capture does not carry.
C32_ArtifactFailureWarned ==
  \A p \in Procs :
    ProcessedWithoutArtifact(p) =>
      \/ "warning" \in DOMAIN result[p]
      \/ "error" \in DOMAIN result[p]
      \/ "message" \in DOMAIN result[p]

\* the write-back invocation p awaited has been answered with an error, or
\* has raised
WriteBackFailed(p) ==
  /\ pc[p] = "update"
  /\ pc'[p] # "update"
  /\ applied' = applied

\* C33: if writing the computed update back to the agreement fails (store
\* error or exception), the run short-circuits to a partial outcome rather
\* than raising: the stored agreement is unchanged and the result is
\* success=true, recordingSuccess=true, agreementProcessed=false with the
\* error message.
C33_WriteBackFailureIsPartial ==
  [][\A p \in Procs :
       WriteBackFailed(p) =>
         /\ pc'[p] = "done"
         /\ agreements' = agreements
         /\ DOMAIN result'[p] =
              {"success", "recordingSuccess", "agreementProcessed", "error"}
         /\ result'[p].success
         /\ result'[p].recordingSuccess
         /\ ~result'[p].agreementProcessed]_vars

\* the write-back of a request-completed event failed: the agreement is as it
\* was and the result is the partial one
C33_Witness ==
  /\ pc[1] = "done"
  /\ webhookData[1].EventId = REQUEST_COMPLETED
  /\ agreement[1] = "A1"
  /\ result[1] = PartialResult("update failed")
  /\ applied = << >>
  /\ agreements = initial

\* a signer-completed event with an email and no display name
NamelessSigner(wd) ==
  /\ wd.EventId = SIGNATORY_COMPLETED
  /\ ~Truthy(wd.UserName)
  /\ Truthy(wd.Email)

\* C34: when a signer-completed event carries no display name, the name
\* recorded in that signer's roster entry is derived from the local part of
\* the signer's email.
C34_RosterNameFromEmail ==
  [][\A p \in Procs :
       (Written(p) /\ NamelessSigner(webhookData[p])) =>
         LET roster == agreements'[agreement[p]].signatories_status
         IN \A k \in PositionsOf(roster, webhookData[p].Email) :
              roster[k].name = ClaimedName(webhookData[p])]_vars

\* C35: starting from an agreement whose roster is seeded with pending
\* entries for two signers, after processing in sequence request-received,
\* signer-completed for each of the two signers, and request-completed, the
\* roster still consists of exactly those two entries and every entry has
\* status completed.
C35_SeededRosterCompleted ==
  applied = FlowEvents =>
    LET roster == Roster("A1")
    IN /\ Len(roster) = Len(SeededRoster)
       /\ \A k \in 1..Len(roster) :
            /\ roster[k].email = SeededRoster[k].email
            /\ roster[k].name = SeededRoster[k].name
            /\ roster[k].type = SeededRoster[k].type
            /\ roster[k].reference = SeededRoster[k].reference
            /\ roster[k].status = "completed"

\* the four events were written back in the order of the test and the
\* agreement is active
C35_Witness ==
  /\ applied = FlowEvents
  /\ pc[1] = "done"
  /\ agreements["A1"].status = ACTIVE
  /\ Roster("A1")[1].signedAt = 2
  /\ Roster("A1")[2].signedAt = 3

\* C36: for one inbound webhook, at most one record is created in
\* webhook_events across the primary insert attempts, their retries and the
\* fallback insert, including when an insert takes effect in the store but
\* its response is lost, unreadable or reported as an error.
C36_AtMostOneRecordPerWebhook ==
  Len(webhook_events) <= handler.count

\* invocation p returns a result that says whether the agreement was processed
Returns(p) ==
  /\ pc[p] # "done"
  /\ pc'[p] = "done"
  /\ "agreementProcessed" \in DOMAIN result'[p]

\* C37: the returned outcome is consistent with the store: whenever
\* processSignatureEvent returns agreementProcessed=true, the result carries
\* the located agreement's id and the stored agreement holds the returned
\* updates; whenever it returns agreementProcessed=false, that invocation did
\* not modify the stored agreement.
C37_OutcomeMatchesStore ==
  [][\A p \in Procs :
       Returns(p) =>
         IF result'[p].agreementProcessed
         THEN /\ result'[p].agreementId = agreement[p]
              /\ agreement[p] \in DOMAIN agreements
              /\ \A f \in DOMAIN result'[p].updates :
                   agreements'[agreement[p]][f] = result'[p].updates[f]
         ELSE agreements' = agreements]_vars

\* a signer-completed event was returned as processed and the agreement
\* holds what the result says
C37_Witness ==
  /\ pc[1] = "done"
  /\ webhookData[1].EventId = SIGNATORY_COMPLETED
  /\ "agreementProcessed" \in DOMAIN result[1]
  /\ result[1].agreementProcessed
  /\ result[1].agreementId = "A1"
  /\ agreements["A1"].signatories_status = result[1].updates.signatories_status
  /\ agreements["A1"].signature_status = result[1].updates.signature_status
  /\ agreements["A1"] # initial["A1"]

\* a signer-completed event that carries neither a display name nor an email
AnonymousSigner(wd) ==
  /\ wd.EventId = SIGNATORY_COMPLETED
  /\ ~Truthy(wd.UserName)
  /\ wd.Email \in {Undefined, Null}

\* C38: a signer-completed event that carries neither a display name nor an
\* email does not modify the agreement and raises nothing to the caller of
\* processSignatureEvent: the invocation ends at the lookup's answer with
\* success = true, agreementProcessed = false and an error, and never comes
\* to the write-back.
C38_AnonymousSignerContained ==
  [][\A p \in Procs :
       (pc[p] = "find" /\ pc'[p] # "find" /\ AnonymousSigner(webhookData[p])) =>
         /\ pc'[p] = "done"
         /\ agreements' = agreements
         /\ result'[p].success
         /\ ~result'[p].agreementProcessed
         /\ "error" \in DOMAIN result'[p]]_vars

\* the agreement was located, the signer branch raised on the missing email,
\* and the invocation returned the partial success with the store untouched
C38_Witness ==
  /\ pc[1] = "done"
  /\ AnonymousSigner(webhookData[1])
  /\ webhookData[1].RequestId = RefA
  /\ agreement[1] = "A1"
  /\ result[1].success
  /\ ~result[1].agreementProcessed
  /\ result[1].error = "TypeError"
  /\ agreements = initial

C40_OnlyLocatedAgreementWritten ==
  [][\A id \in DOMAIN agreements :
       agreements'[id] # agreements[id] =>
         \E p \in Procs : Written(p) /\ agreement[p] = id]_vars

\* both agreements carry the event's reference; the lookup returned A2, the
\* write-back changed it and left A1 as it was
C40_Witness ==
  /\ pc[1] = "done"
  /\ agreement[1] = "A2"
  /\ result[1] = ProcessedResult("A2", updateData[1])
  /\ initial["A1"].eviasignreference = initial["A2"].eviasignreference
  /\ agreements["A2"] # initial["A2"]
  /\ agreements["A1"] = initial["A1"]

====
